---- MODULE Spec2Model ----
(***************************************************************************)
(* BookFinder: the search / filter / detail-view component.                *)
(* State is the component's useState fields plus the invocations of        *)
(* handleSearch that are suspended at one of its two awaits.               *)
(* Text is a sequence of one-character strings, so that trim and parseInt   *)
(* are computed and not assumed.  The model follows the typed component;    *)
(* Books.jsx has the same state, handlers and filter stage.                 *)
(***************************************************************************)
EXTENDS Integers, Sequences, FiniteSets, TLC

VARIABLES searchQuery, searchType, books, loading, error, selectedBook,
          filters, showFilters, requests, lastData

vars == <<searchQuery, searchType, books, loading, error, selectedBook,
          filters, showFilters, requests, lastData>>

\* the state fields a handler of the search form can touch
uiState == <<searchQuery, searchType, books, loading, error, selectedBook,
             filters, showFilters>>

----------------------------------------------------------------------------
(* Bounds of the model *)

\* longest docs array a response carries
MaxDocs == 2
\* invocations of handleSearch suspended at an await at once, in Spec
MaxInFlight == 2
\* the same, in FormSpec
MaxPending == 1

----------------------------------------------------------------------------
(* Text *)

DigitChars == {"0", "1", "2", "3", "4", "5", "6", "7", "8", "9"}

DigitVal(c) ==
    CASE c = "0" -> 0 [] c = "1" -> 1 [] c = "2" -> 2 [] c = "3" -> 3
      [] c = "4" -> 4 [] c = "5" -> 5 [] c = "6" -> 6 [] c = "7" -> 7
      [] c = "8" -> 8 [] c = "9" -> 9

IsSpace(c) == c = " "

RECURSIVE TrimStart(_)
TrimStart(s) ==
    IF s # <<>> /\ IsSpace(Head(s)) THEN TrimStart(Tail(s)) ELSE s

RECURSIVE TrimEnd(_)
TrimEnd(s) ==
    IF s # <<>> /\ IsSpace(s[Len(s)]) THEN TrimEnd(SubSeq(s, 1, Len(s) - 1))
    ELSE s

\* String.prototype.trim
Trim(s) == TrimEnd(TrimStart(s))

\* a string is falsy exactly when it is empty
Truthy(s) == s # <<>>

\* the longest prefix of s made of decimal digits
RECURSIVE DigitPrefix(_)
DigitPrefix(s) ==
    IF s # <<>> /\ Head(s) \in DigitChars
    THEN <<Head(s)>> \o DigitPrefix(Tail(s))
    ELSE <<>>

RECURSIVE DigitsValue(_)
DigitsValue(ds) ==
    IF ds = <<>> THEN 0
    ELSE 10 * DigitsValue(SubSeq(ds, 1, Len(ds) - 1)) + DigitVal(ds[Len(ds)])

\* parseInt(text): leading blanks skipped, an optional sign, then the longest
\* run of decimal digits; what follows the digits is ignored.  The result is
\* {n}, or {} for NaN.
parseInt(text) ==
    LET t == TrimStart(text)
        neg == t # <<>> /\ Head(t) = "-"
        u == IF t # <<>> /\ Head(t) \in {"-", "+"} THEN Tail(t) ELSE t
        ds == DigitPrefix(u)
    IN  IF ds = <<>> THEN {}
        ELSE {IF neg THEN 0 - DigitsValue(ds) ELSE DigitsValue(ds)}

----------------------------------------------------------------------------
(* Book records.  An optional field that is absent is absent from the       *)
(* record's domain.                                                        *)

EbookAccessValues == {"no_ebook", "borrowable", "public", "printdisabled"}
PublishYears == {0, 1, 2}

Book ==
    LET k == [key : {"/works/OL1W"}]
    IN  k
        \cup {[key |-> b.key, ebook_access |-> e] :
                 b \in k, e \in EbookAccessValues}
        \cup {[key |-> b.key, first_publish_year |-> y] :
                 b \in k, y \in PublishYears}
        \cup {[key |-> b.key, ebook_access |-> e, first_publish_year |-> y] :
                 b \in k, e \in EbookAccessValues, y \in PublishYears}

Has(book, field) == field \in DOMAIN book

\* selectedBook when no record is selected
null == [null |-> TRUE]

\* the values the number inputs of the filter panel hand to onChange: the
\* empty string, or a valid floating-point literal such as 1, 2 or 1e1 (ten)
YearTexts == {<<>>, <<"1">>, <<"2">>, <<"1", "e", "1">>}

Filters == [hasEbook : BOOLEAN, yearFrom : YearTexts, yearTo : YearTexts]

SeqsUpTo(S, n) == UNION {[1..k -> S] : k \in 0..n}

----------------------------------------------------------------------------
(* The filter stage of handleSearch *)

\* the card badge's test, book.ebook_access !== 'no_ebook', in the filter's place
EbookPredicateBadge(book) ==
    ~(Has(book, "ebook_access") /\ book.ebook_access = "no_ebook")

\* book.ebook_access === 'borrowable' || book.ebook_access === 'public'
EbookPredicate(book) ==
    Has(book, "ebook_access") /\ book.ebook_access \in {"borrowable", "public"}

\* book.first_publish_year && book.first_publish_year >= parseInt(text):
\* an absent year and the year 0 are falsy, a comparison with NaN is false
YearFromPredicate(book, text) ==
    /\ Has(book, "first_publish_year")
    /\ book.first_publish_year # 0
    /\ \E n \in parseInt(text) : book.first_publish_year >= n

YearToPredicate(book, text) ==
    /\ Has(book, "first_publish_year")
    /\ book.first_publish_year # 0
    /\ \E n \in parseInt(text) : book.first_publish_year <= n

\* the filter stage with the year filters run whether or not a text is given
FilterBooksUnguarded(docs, f) ==
    LET keepEbook(b) == EbookPredicate(b)
        keepFrom(b) == YearFromPredicate(b, f.yearFrom)
        keepTo(b) == YearToPredicate(b, f.yearTo)
        s1 == IF f.hasEbook THEN SelectSeq(docs, keepEbook) ELSE docs
    IN  SelectSeq(SelectSeq(s1, keepFrom), keepTo)

\* lines 63-81: the three filters, each run only when its criterion is set
FilterBooks(docs, f) ==
    LET keepEbook(b) == EbookPredicate(b)
        keepFrom(b) == YearFromPredicate(b, f.yearFrom)
        keepTo(b) == YearToPredicate(b, f.yearTo)
        s1 == IF f.hasEbook THEN SelectSeq(docs, keepEbook) ELSE docs
        s2 == IF Truthy(f.yearFrom) THEN SelectSeq(s1, keepFrom) ELSE s1
        s3 == IF Truthy(f.yearTo) THEN SelectSeq(s2, keepTo) ELSE s2
    IN  s3

----------------------------------------------------------------------------
(* Responses of the search endpoint *)

\* a parsed response body: an object with a docs array, or one without
Responses(bookSet) ==
    {[numFound |-> 0]}
    \cup {[numFound |-> Len(d), docs |-> d] : d \in SeqsUpTo(bookSet, MaxDocs)}

\* the records the endpoint answers with in the component's state machine
SearchBooks ==
    {[key |-> "/works/OL1W", ebook_access |-> "public",
      first_publish_year |-> 2],
     [key |-> "/works/OL1W"]}

\* the texts typed into the query input
Queries == {<<>>, <<" ">>, <<" ", "a">>}

SearchTypes == {"title", "author", "subject"}

\* the texts typed into the year inputs in the component's state machine
TypedYears == {<<>>, <<"1">>}

Keys == {"Enter", "a"}

NoBooksFound == "No books found. Try a different search term."
FailedToFetch ==
    "Failed to fetch books. Please check your connection and try again."

RemoveAt(s, i) == SubSeq(s, 1, i - 1) \o SubSeq(s, i + 1, Len(s))

----------------------------------------------------------------------------
(* Initial state: the useState defaults *)

Init ==
    /\ searchQuery = <<>>
    /\ searchType = "title"
    /\ books = <<>>
    /\ loading = FALSE
    /\ error = ""
    /\ selectedBook = null
    /\ filters = [hasEbook |-> FALSE, yearFrom |-> <<>>, yearTo |-> <<>>]
    /\ showFilters = FALSE
    /\ requests = <<>>
    /\ lastData = null

----------------------------------------------------------------------------
(* handleSearch *)

\* the first line without trim()
RejectsQueryUntrimmed(q) == ~Truthy(q)

\* whether handleSearch returns at its first line
RejectsQuery(q) == ~Truthy(Trim(q))

\* handleSearch with setError('') and setBooks([]) left out
handleSearchKeepsResults(cap) ==
    IF RejectsQuery(searchQuery)
    THEN UNCHANGED vars
    ELSE /\ Len(requests) < cap
         /\ loading' = TRUE
         /\ requests' = Append(requests,
                [filters |-> filters, stage |-> "fetch"])
         /\ UNCHANGED <<searchQuery, searchType, books, error, selectedBook,
                        filters, showFilters, lastData>>

\* handleSearch up to its first await: the early return, or the three
\* setters and the fetch.  The suspended invocation keeps the filters of the
\* render it was called in; the component never reads the url again.  At
\* most cap invocations are suspended at once.
handleSearch(cap) ==
    IF RejectsQuery(searchQuery)
    THEN UNCHANGED vars
    ELSE /\ Len(requests) < cap
         /\ loading' = TRUE
         /\ error' = ""
         /\ books' = <<>>
         /\ requests' = Append(requests,
                [filters |-> filters, stage |-> "fetch"])
         /\ UNCHANGED <<searchQuery, searchType, selectedBook, filters,
                        showFilters, lastData>>

\* the finally block, and the end of the invocation
Finally(i) ==
    /\ loading' = FALSE
    /\ requests' = RemoveAt(requests, i)

\* the catch block
Catch(i) ==
    /\ error' = FailedToFetch
    /\ Finally(i)
    /\ UNCHANGED <<searchQuery, searchType, books, selectedBook, filters,
                   showFilters, lastData>>

\* await fetch(url) resolves: the invocation goes on to response.json()
FetchResolves(i) ==
    /\ i \in DOMAIN requests
    /\ requests[i].stage = "fetch"
    /\ requests' = [requests EXCEPT ![i].stage = "json"]
    /\ UNCHANGED <<uiState, lastData>>

\* await fetch(url) rejects: a network error
FetchRejects(i) ==
    /\ i \in DOMAIN requests
    /\ requests[i].stage = "fetch"
    /\ Catch(i)

\* await response.json() rejects: the body does not parse
JsonRejects(i) ==
    /\ i \in DOMAIN requests
    /\ requests[i].stage = "json"
    /\ Catch(i)

\* data.docs && data.docs.length > 0
HasDocs(d) == Has(d, "docs") /\ Len(d.docs) > 0

\* the try block with a stale response discarded: only the invocation started
\* last writes books or error
JsonResolvesLatestOnly(i, d) ==
    /\ i \in DOMAIN requests
    /\ requests[i].stage = "json"
    /\ IF i < Len(requests)
       THEN UNCHANGED <<books, error>>
       ELSE IF HasDocs(d)
       THEN /\ books' = FilterBooks(d.docs, requests[i].filters)
            /\ UNCHANGED error
       ELSE /\ error' = NoBooksFound
            /\ UNCHANGED books
    /\ Finally(i)
    /\ UNCHANGED <<searchQuery, searchType, selectedBook, filters,
                   showFilters>>

\* await response.json() resolves with d: the rest of the try block, then
\* the finally block
JsonResolves(i, d) ==
    /\ i \in DOMAIN requests
    /\ requests[i].stage = "json"
    /\ IF HasDocs(d)
       THEN /\ books' = FilterBooks(d.docs, requests[i].filters)
            /\ UNCHANGED error
       ELSE /\ error' = NoBooksFound
            /\ UNCHANGED books
    /\ Finally(i)
    /\ UNCHANGED <<searchQuery, searchType, selectedBook, filters,
                   showFilters>>

----------------------------------------------------------------------------
(* The event handlers of the rendered tree *)

\* the search button, disabled while loading
ClickSearch(cap) ==
    /\ ~loading
    /\ handleSearch(cap)

\* onKeyPress of the query input
handleKeyPress(key, cap) ==
    IF key = "Enter" THEN handleSearch(cap) ELSE UNCHANGED vars

\* onChange of the query input
SetSearchQuery(q) ==
    /\ searchQuery' = q
    /\ UNCHANGED <<searchType, books, loading, error, selectedBook, filters,
                   showFilters, requests, lastData>>

\* the three search-type buttons
SetSearchType(t) ==
    /\ searchType' = t
    /\ UNCHANGED <<searchQuery, books, loading, error, selectedBook, filters,
                   showFilters, requests, lastData>>

\* the Filters button
ToggleFilters ==
    /\ showFilters' = ~showFilters
    /\ UNCHANGED <<searchQuery, searchType, books, loading, error,
                   selectedBook, filters, requests, lastData>>

\* the inputs of the filter panel, rendered only while showFilters
SetHasEbook(b) ==
    /\ showFilters
    /\ filters' = [filters EXCEPT !.hasEbook = b]
    /\ UNCHANGED <<searchQuery, searchType, books, loading, error,
                   selectedBook, showFilters, requests, lastData>>

SetYearFrom(t) ==
    /\ showFilters
    /\ filters' = [filters EXCEPT !.yearFrom = t]
    /\ UNCHANGED <<searchQuery, searchType, books, loading, error,
                   selectedBook, showFilters, requests, lastData>>

SetYearTo(t) ==
    /\ showFilters
    /\ filters' = [filters EXCEPT !.yearTo = t]
    /\ UNCHANGED <<searchQuery, searchType, books, loading, error,
                   selectedBook, showFilters, requests, lastData>>

\* onClick of the i-th card of the grid
SelectBook(i) ==
    /\ i \in DOMAIN books
    /\ selectedBook' = books[i]
    /\ UNCHANGED <<searchQuery, searchType, books, loading, error, filters,
                   showFilters, requests, lastData>>

\* onClose of the modal, mounted only while a record is selected
onClose ==
    /\ selectedBook' = null
    /\ UNCHANGED <<searchQuery, searchType, books, loading, error, filters,
                   showFilters, requests, lastData>>

\* the close button: its onClick, then the content region's stopPropagation
ClickCloseButton ==
    /\ selectedBook # null
    /\ onClose

\* a click on the overlay outside the content region
ClickOverlay ==
    /\ selectedBook # null
    /\ onClose

\* the content region without stopPropagation: the click reaches the overlay
ClickContentBubbles ==
    /\ selectedBook # null
    /\ onClose

\* a click inside the content region, off the close button: stopPropagation
\* keeps it from the overlay
ClickContent ==
    /\ selectedBook # null
    /\ UNCHANGED vars

----------------------------------------------------------------------------------------------------------------------------------------------------
(* The component *)

\* lastData is a history variable: the body most recently handed to the try
\* block.  Only FilterSpec records it.
Form(pending) ==
    \/ \E q \in Queries : SetSearchQuery(q)
    \/ \E t \in SearchTypes : SetSearchType(t)
    \/ ToggleFilters
    \/ \E b \in BOOLEAN : SetHasEbook(b)
    \/ \E t \in TypedYears : SetYearFrom(t)
    \/ \E t \in TypedYears : SetYearTo(t)
    \/ ClickSearch(pending)
    \/ \E k \in Keys : handleKeyPress(k, pending)
    \/ \E i \in DOMAIN requests : FetchResolves(i)
    \/ \E i \in DOMAIN requests : FetchRejects(i)
    \/ \E i \in DOMAIN requests : \E d \in Responses(SearchBooks) :
          JsonResolves(i, d) /\ UNCHANGED lastData
    \/ \E i \in DOMAIN requests : JsonRejects(i)
    \/ \E i \in DOMAIN books : SelectBook(i)
    \/ ClickCloseButton
    \/ ClickOverlay
    \/ ClickContent

Next == Form(MaxInFlight)

Spec == Init /\ [][Next]_vars

\* the component with at most MaxPending invocations of handleSearch
\* suspended at once
FormNext == Form(MaxPending)

FormSpec == Init /\ [][FormNext]_vars

\* one search, started from a form holding any filter criteria; the endpoint
\* answers with any records
FilterInit ==
    /\ searchQuery = <<" ", "a">>
    /\ searchType = "title"
    /\ books = <<>>
    /\ loading = TRUE
    /\ error = ""
    /\ selectedBook = null
    /\ filters \in Filters
    /\ showFilters = TRUE
    /\ requests = <<[filters |-> filters, stage |-> "fetch"]>>
    /\ lastData = null

FilterNext ==
    \/ \E i \in DOMAIN requests : FetchResolves(i)
    \/ \E i \in DOMAIN requests : FetchRejects(i)
    \/ \E i \in DOMAIN requests : \E d \in Responses(Book) :
          JsonResolves(i, d) /\ lastData' = d
    \/ \E i \in DOMAIN requests : JsonRejects(i)

FilterSpec == FilterInit /\ [][FilterNext]_vars

\* the criteria of the first of the two searches of RaceSpec: the form's
\* criteria before the eBooks checkbox was toggled
FirstCriteria == [filters EXCEPT !.hasEbook = ~@]

\* two searches in flight: the first started by the button, then the eBooks
\* checkbox toggled and the second started by Enter; the responses arrive in
\* any order
RaceInit ==
    /\ searchQuery = <<" ", "a">>
    /\ searchType = "title"
    /\ books = <<>>
    /\ loading = TRUE
    /\ error = ""
    /\ selectedBook = null
    /\ filters \in [hasEbook : BOOLEAN, yearFrom : TypedYears,
                    yearTo : TypedYears]
    /\ showFilters = TRUE
    /\ requests = <<[filters |-> FirstCriteria, stage |-> "fetch"],
                    [filters |-> filters, stage |-> "fetch"]>>
    /\ lastData = null

RaceNext ==
    \/ \E i \in DOMAIN requests : FetchResolves(i)
    \/ \E i \in DOMAIN requests : FetchRejects(i)
    \/ \E i \in DOMAIN requests : \E d \in Responses(SearchBooks) :
          JsonResolves(i, d) /\ lastData' = d
    \/ \E i \in DOMAIN requests : JsonRejects(i)

RaceSpec == RaceInit /\ [][RaceNext]_vars

----------------------------------------------------------------------------
(* Vocabulary of the properties *)

\* a is b with some elements left out
RECURSIVE IsSubSeq(_, _)
IsSubSeq(a, b) ==
    IF a = <<>> THEN TRUE
    ELSE IF b = <<>> THEN FALSE
    ELSE IF Head(a) = Head(b) THEN IsSubSeq(Tail(a), Tail(b))
    ELSE IsSubSeq(a, Tail(b))

\* the query text is empty or made of blanks only
IsBlank(q) == \A i \in DOMAIN q : q[i] = " "

\* the search whose response was handled last stored a result set
SearchStored == requests = <<>> /\ lastData # null /\ HasDocs(lastData)

RECURSIVE Pow10(_)
Pow10(n) == IF n = 0 THEN 1 ELSE 10 * Pow10(n - 1)

\* the number a year text denotes: decimal digits, then an optional exponent
NumberValue(text) ==
    LET m == DigitPrefix(text)
        rest == SubSeq(text, Len(m) + 1, Len(text))
    IN  IF rest # <<>> /\ Head(rest) = "e"
        THEN DigitsValue(m) * Pow10(DigitsValue(Tail(rest)))
        ELSE DigitsValue(m)

----------------------------------------------------------------------------
(* C1: a click on the search button or an Enter keypress while the query   *)
(* is empty or blank changes no state variable; in particular no request   *)
(* is added.                                                               *)
C1_BlankQueryNoOp ==
    [][(/\ IsBlank(searchQuery)
        /\ \/ ClickSearch(MaxPending)
           \/ handleKeyPress("Enter", MaxPending))
       => UNCHANGED vars]_vars

\* a blank, non-empty query in a form that holds results and filters
C1_Witness ==
    /\ IsBlank(searchQuery) /\ searchQuery # <<>>
    /\ books # <<>>
    /\ filters.hasEbook
    /\ selectedBook # null
    /\ ~loading

(* C2: the result set a successful search stores is a sub-sequence of the  *)
(* raw list of its response, and is the raw list itself when hasEbook is    *)
(* off and both year texts are empty.                                      *)
C2_FilterNarrows ==
    SearchStored =>
        /\ IsSubSeq(books, lastData.docs)
        /\ (~filters.hasEbook /\ filters.yearFrom = <<>> /\ filters.yearTo = <<>>
               => books = lastData.docs)

C2_Witness ==
    /\ SearchStored
    /\ books # <<>>
    /\ Len(books) < Len(lastData.docs)

(* C3: with hasEbook on and no year text, the stored result set is the raw *)
(* list restricted to the records whose ebook_access is 'borrowable' or     *)
(* 'public'; a record without ebook_access is dropped.                     *)
C3_EbookExact ==
    LET allowed(b) == /\ "ebook_access" \in DOMAIN b
                      /\ (b.ebook_access = "borrowable" \/ b.ebook_access = "public")
    IN  SearchStored /\ filters.hasEbook
           /\ filters.yearFrom = <<>> /\ filters.yearTo = <<>>
        => books = SelectSeq(lastData.docs, allowed)

C3_Witness ==
    /\ SearchStored
    /\ filters.hasEbook /\ filters.yearFrom = <<>> /\ filters.yearTo = <<>>
    /\ Len(lastData.docs) = 2
    /\ "ebook_access" \notin DOMAIN lastData.docs[1]
    /\ books = <<lastData.docs[2]>>

(* C4: with a year text in force, every stored record has a                *)
(* first_publish_year that is at least the number yearFrom denotes and at   *)
(* most the number yearTo denotes; when both are in force and yearFrom      *)
(* denotes the greater number, the stored result set is empty.             *)
C4_YearBounds ==
    SearchStored =>
        /\ filters.yearFrom # <<>> =>
              \A i \in DOMAIN books :
                 /\ "first_publish_year" \in DOMAIN books[i]
                 /\ books[i].first_publish_year >= NumberValue(filters.yearFrom)
        /\ filters.yearTo # <<>> =>
              \A i \in DOMAIN books :
                 /\ "first_publish_year" \in DOMAIN books[i]
                 /\ books[i].first_publish_year <= NumberValue(filters.yearTo)
        /\ (/\ filters.yearFrom # <<>>
            /\ filters.yearTo # <<>>
            /\ NumberValue(filters.yearFrom) > NumberValue(filters.yearTo))
              => books = <<>>

(* C5: once a response whose docs array is empty or absent is handled, the *)
(* result set is empty and the error message is the 'no results' message.   *)
C5_EmptyResponse ==
    [][\A i \in DOMAIN requests : \A d \in Responses(SearchBooks) :
          (~HasDocs(d) /\ JsonResolves(i, d))
          => (books' = <<>> /\ error' = NoBooksFound)]_vars

(* C6: once a rejected fetch or a rejected json() is handled, the result    *)
(* set is empty, the error message is the 'failed to fetch' message and     *)
(* loading is false.                                                       *)
C6_TransportFailure ==
    [][\A i \in DOMAIN requests :
          (FetchRejects(i) \/ JsonRejects(i))
          => (books' = <<>> /\ error' = FailedToFetch /\ loading' = FALSE)]_vars

(* C7: whenever the error message is not empty, the result set is empty.    *)
C7_ErrorImpliesNoBooks == error # "" => books = <<>>

(* C8: at most one invocation of handleSearch is suspended at any time.     *)
C8_SingleRequest == Len(requests) <= 1

(* C9: loading is false once every search has completed, and is true while  *)
(* a request is outstanding.                                               *)
C9_LoadingTracksRequests == loading <=> requests # <<>>

(* C10: a click on a card makes that card's record the selected record; the *)
(* close button and a click on the overlay make the selected record null    *)
(* and leave books, error, loading, searchQuery and filters alone; a click  *)
(* inside the content region changes nothing.                              *)
C10_SelectAndDismiss ==
    [][/\ \A i \in DOMAIN books : SelectBook(i) => selectedBook' = books[i]
       /\ (ClickCloseButton \/ ClickOverlay)
             => /\ selectedBook' = null
                /\ UNCHANGED <<books, error, loading, searchQuery, filters>>
       /\ ClickContent => UNCHANGED vars]_vars

\* the second of two different cards is the selected record
C10_Witness ==
    /\ Len(books) = 2
    /\ books[1] # books[2]
    /\ selectedBook = books[2]

(* C12: a click on the search button or an Enter keypress with a query that *)
(* is not blank leaves, before any response, error empty, books empty and   *)
(* loading true, with one more request in flight, and leaves searchQuery,   *)
(* searchType, filters, showFilters and selectedBook alone.                *)
C12_SearchStart ==
    [][(/\ ~IsBlank(searchQuery)
        /\ \/ ClickSearch(MaxPending)
           \/ handleKeyPress("Enter", MaxPending))
       => /\ error' = ""
          /\ books' = <<>>
          /\ loading' = TRUE
          /\ Len(requests') = Len(requests) + 1
          /\ UNCHANGED <<searchQuery, searchType, filters, showFilters,
                         selectedBook>>]_vars

\* a search just started from a form that held results (one of them still
\* selected) and criteria
C12_Witness ==
    /\ loading
    /\ requests # <<>>
    /\ \A i \in DOMAIN requests : requests[i].stage = "fetch"
    /\ books = <<>> /\ error = ""
    /\ selectedBook # null
    /\ filters.hasEbook
    /\ showFilters

(* C13: when a response that carries at least one record is handled and   *)
(* the filters drop them all, the search ends with books empty and error    *)
(* empty; the 'no results' message is set only by a response that carries   *)
(* no record.                                                              *)
C13_FilteredEmptyNoMessage ==
    [][\A i \in DOMAIN requests : \A d \in Responses(SearchBooks) :
          JsonResolves(i, d)
          => /\ (HasDocs(d) /\ FilterBooks(d.docs, requests[i].filters) = <<>>)
                   => (books' = <<>> /\ error' = "")
             /\ (error' = NoBooksFound /\ error # NoBooksFound)
                   => ~HasDocs(d)]_vars

====
